---- MODULE Spec2Model ----
(***************************************************************************)
(* Model of the SKS API server: the tracking handler in its two deployed   *)
(* variants (POST /api/track-search of server.js, POST /api/search-result  *)
(* of the Railway build), the admin report, the health check and the       *)
(* trailing middleware, over the two MySQL tables of database.js, behind   *)
(* the rate limiter; initDatabase and the process-level error handlers.    *)
(*                                                                         *)
(* Strings are sequences of one-character strings, so that the regular     *)
(* expression and the JavaScript coercions are computed, not assumed.      *)
(* An optional value (NULL column, unset environment variable, missing     *)
(* query parameter, absent JSON field) is a sequence of length 0 or 1.     *)
(***************************************************************************)
EXTENDS Integers, Sequences, FiniteSets

VARIABLES variant, ADMIN_SECRET, WHATSAPP_LINK, mobile_searches, now, req,
          hits, alive, retries, initPc

vars == <<variant, ADMIN_SECRET, WHATSAPP_LINK, mobile_searches, now, req,
          hits, alive, retries, initPc>>

\* the process and its start-up: whether node is running, and where
\* initDatabase stands
boot == <<alive, retries, initPc>>

(***************************************************************************)
(* Bounds                                                                  *)
(***************************************************************************)
MaxReq == 2
MaxSingle == 1
MaxTime == 1

Requests == 1..MaxReq

(***************************************************************************)
(* JavaScript values of req.body.mobileNumber                              *)
(***************************************************************************)
DigitChars == <<"0", "1", "2", "3", "4", "5", "6", "7", "8", "9">>

IsDigit(c) == \E i \in 1..Len(DigitChars) : DigitChars[i] = c

Undefined == [t |-> "undefined"]
Str(s) == [t |-> "string", s |-> s]
Num(n) == [t |-> "number", n |-> n]
Arr(a) == [t |-> "array", a |-> a]

RECURSIVE NumberToString(_)
NumberToString(n) ==
  IF n < 10 THEN <<DigitChars[n + 1]>>
  ELSE NumberToString(n \div 10) \o <<DigitChars[(n % 10) + 1]>>

RECURSIVE Join(_)
Join(a) ==
  IF Len(a) = 0 THEN <<>>
  ELSE IF Len(a) = 1 THEN a[1]
  ELSE a[1] \o <<",">> \o Join(Tail(a))

\* String(v), the coercion RegExp.prototype.test applies to its argument
ToString(v) ==
  CASE v.t = "string" -> v.s
    [] v.t = "number" -> NumberToString(v.n)
    [] v.t = "array" -> Join(v.a)
    [] OTHER -> <<"u", "n", "d", "e", "f", "i", "n", "e", "d">>

\* !v is FALSE exactly for the truthy values
ToBoolean(v) ==
  CASE v.t = "string" -> Len(v.s) > 0
    [] v.t = "number" -> v.n # 0
    [] v.t = "array" -> TRUE
    [] OTHER -> FALSE

\* /^\d{10}$/ on a string
MatchesTenDigits(s) == Len(s) = 10 /\ \A i \in 1..Len(s) : IsDigit(s[i])

RegexTest(v) == MatchesTenDigits(ToString(v))

\* the negation of the guard  !mobileNumber || !/^\d{10}$/.test(mobileNumber)
PassesValidation(v) == ToBoolean(v) /\ RegexTest(v)

\* what the claim calls valid: a string of exactly 10 decimal digits
IsTenDigitString(v) ==
  v.t = "string" /\ Len(v.s) = 10 /\ \A i \in 1..Len(v.s) : IsDigit(v.s[i])

RECURSIVE JsonArray(_)
JsonArray(a) ==
  IF Len(a) = 0 THEN <<>>
  ELSE <<"\"">> \o a[1] \o <<"\"">> \o
       (IF Len(a) = 1 THEN <<>> ELSE <<",">> \o JsonArray(Tail(a)))

\* the value a bound parameter takes in a VARCHAR column or comparison
SqlParam(v) ==
  CASE v.t = "string" -> v.s
    [] v.t = "number" -> NumberToString(v.n)
    [] v.t = "array" -> <<"[">> \o JsonArray(v.a) \o <<"]">>
    [] OTHER -> <<>>

(***************************************************************************)
(* Inputs and configuration                                                *)
(***************************************************************************)
Phone1 == <<"1", "2", "3", "4", "5", "6", "7", "8", "9", "0">>
Phone2 == <<"2", "2", "3", "4", "5", "6", "7", "8", "9", "0">>
Phone3 == <<"9", "8", "7", "6", "5", "4", "3", "2", "1", "0">>

\* the values a JSON body can carry in mobileNumber
MobileNumbers ==
  { Undefined,
    Str(<<>>),
    Str(<<"1", "2", "3", "4", "5">>),
    Str(Phone1 \o <<"1">>),
    Str(<<"1", "2", "3", "4", "5", "a", "b", "c", "d", "e">>),
    Str(Phone1), Str(Phone2), Str(Phone3),
    Num(0), Num(1234567890),
    Arr(<<Phone1>>) }

\* the inputs the concurrent runs draw from: missing, malformed, a number
\* with a test result, a number without one
CoreNumbers ==
  { Undefined, Str(<<"1", "2", "3", "4", "5">>), Str(Phone1), Str(Phone3) }

\* req.query.secret and process.env.ADMIN_SECRET: unset, or a string
Secrets == { <<>>, <<"s3cret">>, <<"wrong">> }
AdminSecrets == { <<>>, <<"s3cret">> }
WhatsappLinks == { <<>>, <<"https://chat.whatsapp.com/sks">> }

\* the two builds of the tracking route
Variants == { "track-search", "search-result" }

\* table test_results: populated from outside, only read by the service
test_results ==
  { [name |-> "Asha", phone |-> Phone1, result |-> "Selected"],
    [name |-> "Ravi", phone |-> Phone2, result |-> "Not Selected"] }

(***************************************************************************)
(* Storage statements (each one atomic in the database server)             *)
(* The AUTO_INCREMENT id column is left out: no handler reads or sets it.  *)
(***************************************************************************)
HasRow(table, k) == \E row \in table : row.mobile_number = k

RowOf(table, k) == CHOOSE row \in table : row.mobile_number = k

\* INSERT IGNORE: a duplicate key leaves the row as it is
UpsertIgnore(table, k, t) ==
  IF HasRow(table, k) THEN table
  ELSE table \cup {[mobile_number |-> k, click_count |-> 1,
                    name |-> <<>>, last_updated |-> t]}

\* no unique key: always a new row
UpsertDuplicate(table, k, t) ==
  table \cup {[mobile_number |-> k,
               click_count |-> IF HasRow(table, k)
                               THEN RowOf(table, k).click_count + 1 ELSE 1,
               name |-> <<>>, last_updated |-> t]}

\* REPLACE INTO: a duplicate key deletes the row and inserts a fresh one
UpsertReplace(table, k, t) ==
  {row \in table : row.mobile_number # k}
    \cup {[mobile_number |-> k, click_count |-> 1,
           name |-> <<>>, last_updated |-> t]}

\* a duplicate key adds 1 to click_count and leaves last_updated as it was
UpsertStale(table, k, t) ==
  IF HasRow(table, k)
  THEN { IF row.mobile_number = k
         THEN [row EXCEPT !.click_count = @ + 1]
         ELSE row : row \in table }
  ELSE table \cup {[mobile_number |-> k, click_count |-> 1,
                    name |-> <<>>, last_updated |-> t]}

\* INSERT INTO mobile_searches ... VALUES (?, 1, NULL)
\* ON DUPLICATE KEY UPDATE click_count = click_count + 1,
\*                         last_updated = CURRENT_TIMESTAMP
Upsert(table, k, t) ==
  IF HasRow(table, k)
  THEN { IF row.mobile_number = k
         THEN [row EXCEPT !.click_count = @ + 1, !.last_updated = t]
         ELSE row : row \in table }
  ELSE table \cup {[mobile_number |-> k, click_count |-> 1,
                    name |-> <<>>, last_updated |-> t]}

\* an UPDATE that matches no row
UpdateSkipped(table, k, n, t) == table

\* a name write that inserts the row when the number has none
UpdateNameUpserts(table, k, n, t) ==
  IF HasRow(table, k)
  THEN { IF row.mobile_number = k /\ row.name # <<n>>
         THEN [row EXCEPT !.name = <<n>>, !.last_updated = t]
         ELSE row : row \in table }
  ELSE table \cup {[mobile_number |-> k, click_count |-> 1,
                    name |-> <<n>>, last_updated |-> t]}

\* UPDATE mobile_searches SET name = ? WHERE mobile_number = ?
\* (last_updated is ON UPDATE CURRENT_TIMESTAMP: it moves when the row changes)
UpdateName(table, k, n, t) ==
  { IF row.mobile_number = k /\ row.name # <<n>>
    THEN [row EXCEPT !.name = <<n>>, !.last_updated = t]
    ELSE row : row \in table }

\* SELECT * FROM test_results WHERE phone = ?   (phone is UNIQUE)
RECURSIVE SetToSeq(_)
SetToSeq(S) ==
  IF S = {} THEN <<>>
  ELSE LET x == CHOOSE y \in S : TRUE IN <<x>> \o SetToSeq(S \ {x})

SelectTestResult(k) == SetToSeq({row \in test_results : row.phone = k})

RECURSIVE Orderings(_)
Orderings(S) ==
  IF S = {} THEN {<<>>}
  ELSE UNION { { <<x>> \o rest : rest \in Orderings(S \ {x}) } : x \in S }

IsSortedDesc(rows) ==
  \A i \in 1..Len(rows) : \A j \in 1..Len(rows) :
    i < j => rows[i].last_updated >= rows[j].last_updated

\* SELECT ... FROM mobile_searches ORDER BY last_updated DESC
\* (rows with equal last_updated come in any order)
SelectSearches(table) == { rows \in Orderings(table) : IsSortedDesc(rows) }

(***************************************************************************)
(* Requests and responses                                                  *)
(***************************************************************************)
\* a request slot before the request arrives.  stmts, track, lookup,
\* reconcile, before, route and overdue record what happened to the request;
\* the handlers never read them.
Idle ==
  [kind |-> "idle", pc |-> "idle", mobileNumber |-> Undefined, secret |-> <<>>,
   stmts |-> <<>>, track |-> "none", lookup |-> "none", reconcile |-> "none",
   testResult |-> <<>>, before |-> 0,
   headersSent |-> FALSE, responses |-> <<>>, timer |-> "off",
   route |-> "", overdue |-> FALSE]

InFlight(q) == q.kind # "idle" /\ q.pc # "done"

ClickCount(table, k) == IF HasRow(table, k) THEN RowOf(table, k).click_count ELSE 0

\* res.status(status).json(body): writes a response and ends the handler
Json(q, status, body) ==
  [q EXCEPT !.pc = "done", !.headersSent = TRUE,
            !.responses = Append(@, [status |-> status, body |-> body])]

ErrorBody(msg) == [error |-> msg]

\* a storage statement is handed to the pool; the handler awaits it
Execute(q, stmt) == [q EXCEPT !.pc = stmt, !.stmts = Append(@, stmt)]

(***************************************************************************)
(* app.use(limiter): express-rate-limit, in front of every route           *)
(***************************************************************************)
\* max of server.js and of the Railway build
LimiterMax == 100
LimiterMaxRailway == 1000

Max == IF variant = "track-search" THEN LimiterMax ELSE LimiterMaxRailway

\* the limiter counts every request of the address in the current window.
\* Past Max + 1 the count is not followed: every further request is refused
\* in the same way.
Increment(n) == IF n > Max THEN n ELSE n + 1

\* message: a plain string in server.js, an object in the Railway build
TooManyRequests ==
  IF variant = "track-search"
  THEN [text |-> "Too many requests from this IP"]
  ELSE ErrorBody("Too many requests, please try again later")

\* a request over the limit is answered 429 and reaches no route
Limiter(q) ==
  IF Increment(hits) > Max
  THEN Json([Idle EXCEPT !.kind = "limited", !.route = q.route], 429,
            TooManyRequests)
  ELSE q

\* request r passes the limiter, enters its handler and runs to its first
\* await or response: q
Start(r, q) == [req EXCEPT ![r] = Limiter([q EXCEPT !.route = q.kind])]

\* windowMs has passed: the counts are dropped
WindowReset ==
  /\ hits > 0
  /\ hits' = 0
  /\ UNCHANGED <<variant, ADMIN_SECRET, WHATSAPP_LINK, boot, mobile_searches,
                 now, req>>

\* slots are taken in order; a process that has exited accepts no connection
Arrives(r) ==
  /\ alive
  /\ req[r].kind = "idle" /\ \A p \in Requests : p < r => req[p].kind # "idle"

\* the parameter bound to mobile_number by the tracking write
TrackParam(v) ==
  IF variant = "track-search"
  THEN (IF ToBoolean(v) THEN SqlParam(v) ELSE <<>>)     \* mobileNumber || ''
  ELSE SqlParam(v)

(***************************************************************************)
(* POST /api/track-search (server.js), POST /api/search-result (Railway)   *)
(***************************************************************************)
\* if (!mobileNumber || !/^\d{10}$/.test(mobileNumber)) return 400;
\* otherwise the lookup is issued
Validate(q) ==
  IF ~PassesValidation(q.mobileNumber)
  THEN Json(q, 400, ErrorBody("Invalid mobile number"))
  ELSE Execute(q, "lookup")

NewTrack(v) ==
  [Idle EXCEPT !.kind = "track", !.mobileNumber = v,
               !.before = ClickCount(mobile_searches, TrackParam(v))]

\* the order of the older builds: validate first, track only a valid number
TrackSearchValidatesFirst(r, v) ==
  /\ variant = "track-search"
  /\ Arrives(r)
  /\ req' = Start(r, IF PassesValidation(v)
                     THEN Execute(NewTrack(v), "track")
                     ELSE Validate(NewTrack(v)))
  /\ hits' = Increment(hits)
  /\ UNCHANGED <<variant, ADMIN_SECRET, WHATSAPP_LINK, boot, mobile_searches, now>>

\* a handler that issues the lookup without awaiting the tracking write
TrackSearchNoAwait(r, v) ==
  /\ variant = "track-search"
  /\ Arrives(r)
  /\ req' = Start(r, Execute(Execute(NewTrack(v), "track"), "lookup"))
  /\ hits' = Increment(hits)
  /\ UNCHANGED <<variant, ADMIN_SECRET, WHATSAPP_LINK, boot, mobile_searches, now>>

\* server.js: the tracking write is issued for every body
TrackSearch(r, v) ==
  /\ variant = "track-search"
  /\ Arrives(r)
  /\ req' = Start(r, Execute(NewTrack(v), "track"))
  /\ hits' = Increment(hits)
  /\ UNCHANGED <<variant, ADMIN_SECRET, WHATSAPP_LINK, boot, mobile_searches, now>>

\* Railway build: the tracking write is issued only for a truthy mobileNumber
SearchResult(r, v) ==
  /\ variant = "search-result"
  /\ Arrives(r)
  /\ req' = Start(r, IF ToBoolean(v)
                     THEN Execute(NewTrack(v), "track")
                     ELSE Validate(NewTrack(v)))
  /\ hits' = Increment(hits)
  /\ UNCHANGED <<variant, ADMIN_SECRET, WHATSAPP_LINK, boot, mobile_searches, now>>

\* a failed tracking write aborts the request
TrackDoneAborts(r) ==
  /\ req[r].pc = "track"
  /\ \E ok \in BOOLEAN :
       IF ok
       THEN /\ mobile_searches' =
                 Upsert(mobile_searches, TrackParam(req[r].mobileNumber), now)
            /\ req' = [req EXCEPT ![r] = Validate([@ EXCEPT !.track = "ok"])]
       ELSE /\ mobile_searches' = mobile_searches
            /\ req' = [req EXCEPT ![r] =
                         Json([@ EXCEPT !.track = "failed"], 500,
                              ErrorBody("Internal server error"))]
  /\ UNCHANGED <<variant, ADMIN_SECRET, WHATSAPP_LINK, boot, hits, now>>

\* the tracking write completes or fails (the failure is logged and dropped),
\* then the handler validates
TrackDone(r) ==
  /\ req[r].pc = "track"
  /\ \E ok \in BOOLEAN :
       /\ mobile_searches' =
            IF ok
            THEN Upsert(mobile_searches, TrackParam(req[r].mobileNumber), now)
            ELSE mobile_searches
       /\ req' = [req EXCEPT ![r] =
                    Validate([@ EXCEPT !.track = IF ok THEN "ok" ELSE "failed"])]
  /\ UNCHANGED <<variant, ADMIN_SECRET, WHATSAPP_LINK, boot, hits, now>>

\* the handler's step after a lookup that returned rows
AfterLookup(q, rows) ==
  IF Len(rows) > 0
  THEN Execute([q EXCEPT !.lookup = "row", !.testResult = rows], "reconcile")
  ELSE Json([q EXCEPT !.lookup = "empty"], 404,
            ErrorBody("No test result found for this mobile number"))

\* a failed lookup taken for an empty result
LookupFailedAsEmpty(q) ==
  Json([q EXCEPT !.lookup = "failed"], 404,
       ErrorBody("No test result found for this mobile number"))

\* the handler's step after a lookup that failed: server.js reaches the outer
\* catch, the Railway build its own catch around the query
LookupFailed(q) ==
  IF variant = "track-search"
  THEN (IF ~q.headersSent
        THEN Json([q EXCEPT !.lookup = "failed"], 500,
                  ErrorBody("Internal server error"))
        ELSE [q EXCEPT !.lookup = "failed", !.pc = "done"])
  ELSE Json([q EXCEPT !.lookup = "failed"], 500,
            ErrorBody("Database temporarily unavailable"))

LookupDone(r) ==
  /\ req[r].pc = "lookup"
  /\ \E ok \in BOOLEAN :
       req' = [req EXCEPT ![r] =
                 IF ok
                 THEN AfterLookup(@, SelectTestResult(SqlParam(@.mobileNumber)))
                 ELSE LookupFailed(@)]
  /\ UNCHANGED <<variant, ADMIN_SECRET, WHATSAPP_LINK, boot, hits, mobile_searches, now>>

\* a 200 body that reports the search record's count next to the test result
SuccessBodyWithClicks(row) ==
  [success |-> TRUE,
   data |-> [name |-> row.name, phone |-> row.phone, result |-> row.result,
             click_count |-> ClickCount(mobile_searches, row.phone)],
   whatsappLink |-> IF variant = "search-result" /\ row.result = "Selected"
                    THEN WHATSAPP_LINK ELSE <<>>]

\* the 200 body: server.js sends the row alone, the Railway build adds
\* whatsappLink when result is 'Selected' (an unset variable is dropped by JSON)
SuccessBody(row) ==
  [success |-> TRUE, data |-> row,
   whatsappLink |-> IF variant = "search-result" /\ row.result = "Selected"
                    THEN WHATSAPP_LINK ELSE <<>>]

\* the name update completes or fails (the failure is logged and dropped),
\* then the 200 response is written
ReconcileDone(r) ==
  /\ req[r].pc = "reconcile"
  /\ \E ok \in BOOLEAN :
       /\ mobile_searches' =
            IF ok
            THEN UpdateName(mobile_searches, SqlParam(req[r].mobileNumber),
                            req[r].testResult[1].name, now)
            ELSE mobile_searches
       /\ req' = [req EXCEPT ![r] =
                    Json([@ EXCEPT !.reconcile = IF ok THEN "ok" ELSE "failed"],
                         200, SuccessBody(@.testResult[1]))]
  /\ UNCHANGED <<variant, ADMIN_SECRET, WHATSAPP_LINK, boot, hits, now>>

(***************************************************************************)
(* GET /api/admin/searches                                                 *)
(***************************************************************************)
\* if (secret !== process.env.ADMIN_SECRET): undefined === undefined when both
\* the query parameter and the variable are missing
Unauthorized(secret) == secret # ADMIN_SECRET

AdminSearches(r, secret) ==
  /\ Arrives(r)
  /\ req' = Start(r, LET q == [Idle EXCEPT !.kind = "admin", !.secret = secret]
                     IN IF Unauthorized(secret)
                        THEN Json(q, 401, ErrorBody("Unauthorized"))
                        ELSE Execute(q, "list"))
  /\ hits' = Increment(hits)
  /\ UNCHANGED <<variant, ADMIN_SECRET, WHATSAPP_LINK, boot, mobile_searches, now>>

\* a query without its ORDER BY
ListUnordered(table) == Orderings(table)

\* the admin query of both builds
List(table) == SelectSearches(table)

\* the admin query completes or fails; server.js answers the failure from the
\* outer catch, the Railway build from its own catch around the query
AdminDone(r) ==
  /\ req[r].pc = "list"
  /\ \/ \E result \in List(mobile_searches) :
          req' = [req EXCEPT ![r] =
                    Json(@, 200, [success |-> TRUE, data |-> result,
                                  total |-> Len(result)])]
     \/ req' = [req EXCEPT ![r] =
                  IF variant = "track-search"
                  THEN (IF ~@.headersSent
                        THEN Json(@, 500, ErrorBody("Internal server error"))
                        ELSE [@ EXCEPT !.pc = "done"])
                  ELSE Json(@, 500, ErrorBody("Database temporarily unavailable"))]
  /\ UNCHANGED <<variant, ADMIN_SECRET, WHATSAPP_LINK, boot, hits, mobile_searches, now>>

(***************************************************************************)
(* GET /health and the middleware after the routes                         *)
(***************************************************************************)
\* a health check that asks the database first
HealthPings(r) ==
  /\ Arrives(r)
  /\ req' = Start(r, Execute([Idle EXCEPT !.kind = "health"], "ping"))
  /\ hits' = Increment(hits)
  /\ UNCHANGED <<variant, ADMIN_SECRET, WHATSAPP_LINK, boot, mobile_searches, now>>

Health(r) ==
  /\ Arrives(r)
  /\ req' = Start(r, Json([Idle EXCEPT !.kind = "health"], 200,
                          [status |-> "OK", timestamp |-> now]))
  /\ hits' = Increment(hits)
  /\ UNCHANGED <<variant, ADMIN_SECRET, WHATSAPP_LINK, boot, mobile_searches, now>>

\* app.use((error, req, res, next) => ...)
ErrorMiddleware(q) ==
  IF ~q.headersSent
  THEN Json(q, 500, ErrorBody("Internal server error"))
  ELSE [q EXCEPT !.pc = "done"]

\* a body express.json() cannot parse: next(err) skips the routes and
\* reaches the error middleware
MalformedBody(r) ==
  /\ Arrives(r)
  /\ req' = Start(r, ErrorMiddleware([Idle EXCEPT !.kind = "malformed"]))
  /\ hits' = Increment(hits)
  /\ UNCHANGED <<variant, ADMIN_SECRET, WHATSAPP_LINK, boot, mobile_searches, now>>

\* a path no route matches: the timeout middleware arms the 30 s timer and
\* calls next(), the 404 handler answers at once.  The routes above never
\* call next(), so their requests never get the timer.
Unmatched(r) ==
  /\ Arrives(r)
  /\ req' = Start(r, Json([Idle EXCEPT !.kind = "unmatched", !.timer = "armed"],
                          404, ErrorBody("Route not found")))
  /\ hits' = Increment(hits)
  /\ UNCHANGED <<variant, ADMIN_SECRET, WHATSAPP_LINK, boot, mobile_searches, now>>

\* a timeout callback that answers without looking at res.headersSent
OnTimeoutUnchecked(q) ==
  Json([q EXCEPT !.timer = "fired"], 408, ErrorBody("Request timeout"))

\* the callback given to res.setTimeout
OnTimeout(q) ==
  IF ~q.headersSent
  THEN Json([q EXCEPT !.timer = "fired"], 408, ErrorBody("Request timeout"))
  ELSE [q EXCEPT !.timer = "fired"]

\* the socket stays idle for 30 s while the response is still attached to it
Timeout(r) ==
  /\ req[r].timer = "armed"
  /\ req' = [req EXCEPT ![r] = OnTimeout(@)]
  /\ UNCHANGED <<variant, ADMIN_SECRET, WHATSAPP_LINK, boot, hits, mobile_searches, now>>

\* CURRENT_TIMESTAMP moves on
Tick ==
  /\ now < MaxTime
  /\ now' = now + 1
  /\ UNCHANGED <<variant, ADMIN_SECRET, WHATSAPP_LINK, boot, hits, mobile_searches, req>>

(***************************************************************************)
(* initDatabase (database.js), called without await when server.js loads   *)
(***************************************************************************)
\* let retries = 5
InitialRetries == 5

\* node has loaded the module: initDatabase has issued its first statement
Booting == alive = TRUE /\ retries = InitialRetries /\ initPc = "select"

\* the statements of one attempt, in order
AfterStatement(pc) ==
  CASE pc = "select" -> "create_searches"
    [] pc = "create_searches" -> "create_results"
    [] pc = "create_results" -> "returned"

\* a catch block that waits and tries again without counting
CatchForever(n) == [retries |-> n, initPc |-> "sleep"]

\* catch (error): retries--; if (retries === 0) return; else wait 10 s
Catch(n) ==
  IF n - 1 = 0
  THEN [retries |-> 0, initPc |-> "returned"]
  ELSE [retries |-> n - 1, initPc |-> "sleep"]

\* an awaited statement of initDatabase returns or fails
InitStatementDone ==
  /\ initPc \in {"select", "create_searches", "create_results"}
  /\ \E ok \in BOOLEAN :
       IF ok
       THEN initPc' = AfterStatement(initPc) /\ retries' = retries
       ELSE initPc' = Catch(retries).initPc /\ retries' = Catch(retries).retries
  /\ UNCHANGED <<variant, ADMIN_SECRET, WHATSAPP_LINK, alive, hits,
                 mobile_searches, now, req>>

\* the 10 s wait ends; while (retries > 0) starts the next attempt
InitWake ==
  /\ initPc = "sleep"
  /\ retries > 0
  /\ initPc' = "select"
  /\ UNCHANGED <<variant, ADMIN_SECRET, WHATSAPP_LINK, alive, hits,
                 mobile_searches, now, req, retries>>

InitDatabase == InitStatementDone \/ InitWake

(***************************************************************************)
(* process.on('uncaughtException'), process.on('unhandledRejection')       *)
(***************************************************************************)
\* an exception no try block catches (an 'error' event without a listener,
\* such as the one of a listen() that fails; a throw inside a callback of a
\* library) or a promise rejected without a handler: server.js logs it and
\* calls process.exit(1), the Railway build logs it and goes on.
\* The exit closes every connection: a request in flight gets no response and
\* no timer fires any more.  A statement the database had not answered yet
\* is taken not to have run.
Exit(q) ==
  IF q.kind = "idle" THEN q
  ELSE [q EXCEPT !.pc = "done", !.timer = IF @ = "armed" THEN "off" ELSE @]

UncaughtException ==
  /\ alive
  /\ IF variant = "track-search"
     THEN alive' = FALSE /\ req' = [r \in Requests |-> Exit(req[r])]
     ELSE UNCHANGED <<alive, req>>
  /\ UNCHANGED <<variant, ADMIN_SECRET, WHATSAPP_LINK, hits, mobile_searches,
                 now, retries, initPc>>

(***************************************************************************)
(* The 30 s budget of a request                                            *)
(***************************************************************************)
\* 30 s have passed since request r arrived and it has not been answered.
\* A request that has the timer of the timeout middleware is handled by
\* Timeout; for every other request nothing runs: node sets no timeout of
\* its own on a response (server.timeout is 0).
BudgetElapses(r) ==
  /\ InFlight(req[r])
  /\ req[r].timer = "off"
  /\ ~req[r].overdue
  /\ req' = [req EXCEPT ![r].overdue = TRUE]
  /\ UNCHANGED <<variant, ADMIN_SECRET, WHATSAPP_LINK, boot, hits,
                 mobile_searches, now>>

(***************************************************************************)
(* Specification                                                           *)
(***************************************************************************)
Init ==
  /\ variant \in Variants
  /\ ADMIN_SECRET \in AdminSecrets
  /\ WHATSAPP_LINK \in WhatsappLinks
  /\ mobile_searches = {}
  /\ now = 0
  /\ req = [r \in Requests |-> Idle]
  /\ hits = 0
  /\ Booting

\* mobile_searches after earlier requests: Phone1 searched twice and
\* reconciled, Phone3 searched once
SeededSearches ==
  { [mobile_number |-> Phone1, click_count |-> 2, name |-> <<"Asha">>,
     last_updated |-> 0],
    [mobile_number |-> Phone3, click_count |-> 1, name |-> <<>>,
     last_updated |-> 0] }

InitSeeded ==
  /\ variant \in Variants
  /\ ADMIN_SECRET \in AdminSecrets
  /\ WHATSAPP_LINK \in WhatsappLinks
  /\ mobile_searches = SeededSearches
  /\ now = 0
  /\ req = [r \in Requests |-> Idle]
  /\ hits = 0
  /\ Booting

\* a request arrives in slot r with a mobileNumber drawn from V
Arrive(r, V) ==
  \/ \E v \in V : TrackSearch(r, v)
  \/ \E v \in V : SearchResult(r, v)
  \/ \E secret \in Secrets : AdminSearches(r, secret)
  \/ Health(r)
  \/ MalformedBody(r)
  \/ Unmatched(r)

\* a pending storage statement returns, a timer fires, the clock moves
Proceed ==
  \/ \E r \in Requests : TrackDone(r)
  \/ \E r \in Requests : LookupDone(r)
  \/ \E r \in Requests : ReconcileDone(r)
  \/ \E r \in Requests : AdminDone(r)
  \/ \E r \in Requests : Timeout(r)
  \/ Tick

\* concurrent requests over the core inputs
Next == (\E r \in Requests : Arrive(r, CoreNumbers)) \/ Proceed

Spec == Init /\ [][Next]_vars

\* the same, started on the table an earlier run of the server left behind
\* (CREATE TABLE IF NOT EXISTS keeps the rows)
SpecSeeded == InitSeeded /\ [][Next]_vars

\* MaxSingle requests over every input shape
NextInputs == (\E r \in 1..MaxSingle : Arrive(r, MobileNumbers)) \/ Proceed

SpecInputs == Init /\ [][NextInputs]_vars

\* the tracking handler alone: concurrent requests over the core inputs
NextTracking ==
  \/ \E r \in Requests : \E v \in CoreNumbers : TrackSearch(r, v)
  \/ \E r \in Requests : \E v \in CoreNumbers : SearchResult(r, v)
  \/ \E r \in Requests : TrackDone(r)
  \/ \E r \in Requests : LookupDone(r)
  \/ \E r \in Requests : ReconcileDone(r)
  \/ Tick

SpecTracking == Init /\ [][NextTracking]_vars

\* the same with the clock of each request and the process-level handlers
NextFaults ==
  \/ NextInputs
  \/ \E r \in Requests : BudgetElapses(r)
  \/ UncaughtException

SpecFaults == Init /\ [][NextFaults]_vars

\* start-up: initDatabase runs while the server already answers /health.
\* Every awaited statement is taken to return or fail, and the 10 s wait to
\* end.
NextInit == InitDatabase \/ (\E r \in Requests : Health(r)) \/ Tick

SpecInit == Init /\ [][NextInit]_vars /\ WF_vars(InitDatabase)

\* the window of the limiter holds the requests the address made before
InitBusy ==
  /\ variant \in Variants
  /\ ADMIN_SECRET \in AdminSecrets
  /\ WHATSAPP_LINK \in WhatsappLinks
  /\ mobile_searches = {}
  /\ now = 0
  /\ req = [r \in Requests |-> Idle]
  /\ hits \in {0, Max - 1}
  /\ Booting

\* one request of any kind, health checks after it
NextLimiter ==
  \/ \E r \in 1..MaxSingle : Arrive(r, CoreNumbers)
  \/ \E r \in Requests : Health(r)
  \/ Proceed
  \/ WindowReset

SpecLimiter == InitBusy /\ [][NextLimiter]_vars

(***************************************************************************)
(* Properties                                                              *)
(***************************************************************************)
IsTrack(r) == req[r].kind = "track"
IsAdmin(r) == req[r].kind = "admin"
IsDone(r) == req[r].pc = "done"
Issued(r, stmt) == \E i \in 1..Len(req[r].stmts) : req[r].stmts[i] = stmt
Answered(r, status) ==
  Len(req[r].responses) = 1 /\ req[r].responses[1].status = status
KeyOf(r) == TrackParam(req[r].mobileNumber)
RowsOf(table, k) == {row \in table : row.mobile_number = k}

\* C1: the lookup is issued only for a mobileNumber that is a string of
\* exactly 10 decimal digits; every other body is answered 400 with no lookup.
C1_OnlyTenDigitStringsLookedUp ==
  \A r \in Requests :
    IsTrack(r) /\ ~IsTenDigitString(req[r].mobileNumber) =>
      /\ ~Issued(r, "lookup")
      /\ IsDone(r) => Answered(r, 400)

\* C2: whatever the interleaving of the requests' statements, a number has no
\* record while no tracking write for it has succeeded, and otherwise exactly
\* one record whose click_count is the number of tracking writes that
\* succeeded for it: no increment is lost, no duplicate is created.
C2_NoLostIncrement ==
  \A v \in CoreNumbers :
    LET k == TrackParam(v)
        n == Cardinality({r \in Requests :
                            IsTrack(r) /\ req[r].track = "ok" /\ KeyOf(r) = k})
    IN /\ Cardinality(RowsOf(mobile_searches, k)) = IF n = 0 THEN 0 ELSE 1
       /\ \A row \in RowsOf(mobile_searches, k) : row.click_count = n

\* two requests for one number, both tracked, both still running
C2_Witness ==
  \E r1 \in Requests : \E r2 \in Requests :
    /\ r1 # r2 /\ IsTrack(r1) /\ IsTrack(r2) /\ KeyOf(r1) = KeyOf(r2)
    /\ req[r1].track = "ok" /\ req[r2].track = "ok"
    /\ InFlight(req[r1]) /\ InFlight(req[r2])
    /\ ClickCount(mobile_searches, KeyOf(r1)) = 2

\* C3: a tracking write that succeeds creates the record with click_count 1
\* when there was none, adds exactly 1 to click_count when there was one, and
\* leaves the records of all other numbers as they were.
C3_TrackingWrite ==
  [][\A r \in Requests :
       req[r].pc = "track" /\ req'[r].track = "ok" =>
         LET k == KeyOf(r)
         IN /\ Cardinality(RowsOf(mobile_searches', k)) = 1
            /\ ClickCount(mobile_searches', k) =
                 IF HasRow(mobile_searches, k)
                 THEN ClickCount(mobile_searches, k) + 1 ELSE 1
            /\ {row \in mobile_searches' : row.mobile_number # k} =
                 {row \in mobile_searches : row.mobile_number # k}]_vars

\* a record was incremented next to the record of another number
C3_Witness ==
  \E r \in Requests :
    /\ IsTrack(r) /\ req[r].track = "ok" /\ req[r].before = 1
    /\ ClickCount(mobile_searches, KeyOf(r)) = 2
    /\ \E row \in mobile_searches : row.mobile_number # KeyOf(r)

\* C4: the response does not depend on the tracking write: two finished
\* requests with the same body and the same lookup outcome have the same
\* response whatever their tracking writes did, and the status is 400 when
\* validation fails, 500, 404 or 200 as the lookup failed, found nothing or
\* found a row.
C4_TrackFailureInvisible ==
  /\ \A r1 \in Requests : \A r2 \in Requests :
       /\ IsTrack(r1) /\ IsTrack(r2) /\ IsDone(r1) /\ IsDone(r2)
       /\ req[r1].mobileNumber = req[r2].mobileNumber
       /\ req[r1].lookup = req[r2].lookup
       => req[r1].responses = req[r2].responses
  /\ \A r \in Requests :
       IsTrack(r) /\ IsDone(r) =>
         Answered(r, CASE ~PassesValidation(req[r].mobileNumber) -> 400
                       [] req[r].lookup = "failed" -> 500
                       [] req[r].lookup = "empty" -> 404
                       [] OTHER -> 200)

\* the same body answered 200 once after a tracking write that succeeded and
\* once after one that failed
C4_Witness ==
  \E r1 \in Requests : \E r2 \in Requests :
    /\ IsTrack(r1) /\ IsTrack(r2) /\ IsDone(r1) /\ IsDone(r2)
    /\ req[r1].mobileNumber = req[r2].mobileNumber
    /\ req[r1].track = "ok" /\ req[r2].track = "failed"
    /\ Answered(r1, 200) /\ Answered(r2, 200)

\* C5: for a string of 10 digits, a lookup query that fails ends the request
\* with 500 and no reconciliation write.
C5_LookupFailureIs500 ==
  \A r \in Requests :
    IsTrack(r) /\ IsTenDigitString(req[r].mobileNumber)
               /\ req[r].lookup = "failed" =>
      IsDone(r) /\ Answered(r, 500) /\ ~Issued(r, "reconcile")

\* the lookup of a number that has a test result failed
C5_Witness ==
  \E r \in Requests :
    /\ IsTrack(r) /\ req[r].mobileNumber = Str(Phone1)
    /\ req[r].lookup = "failed" /\ req[r].track = "ok" /\ IsDone(r)

NoTestResult(v) == SelectTestResult(SqlParam(v)) = <<>>

\* C6 as stated: a finished request for a 10-digit number whose lookup found
\* no test result was answered 404 and the number's record has click_count
\* one more than before the request.
C6_NotFoundIsCounted ==
  \A r \in Requests :
    IsTrack(r) /\ IsDone(r) /\ IsTenDigitString(req[r].mobileNumber)
               /\ NoTestResult(req[r].mobileNumber)
               /\ req[r].lookup = "empty" =>
      /\ Answered(r, 404)
      /\ HasRow(mobile_searches, KeyOf(r))
      /\ ClickCount(mobile_searches, KeyOf(r)) = req[r].before + 1

\* C6 amended: a finished request for a 10-digit number without a test result
\* was answered 404 if its lookup succeeded and 500 if it failed, and if its
\* tracking write succeeded the number's record exists with click_count at
\* least one more than before the request.
C6_NotFoundIsCountedWhenTracked ==
  \A r \in Requests :
    IsTrack(r) /\ IsDone(r) /\ IsTenDigitString(req[r].mobileNumber)
               /\ NoTestResult(req[r].mobileNumber) =>
      /\ req[r].lookup = "empty" => Answered(r, 404)
      /\ req[r].lookup = "failed" => Answered(r, 500)
      /\ req[r].track = "ok" =>
           /\ HasRow(mobile_searches, KeyOf(r))
           /\ ClickCount(mobile_searches, KeyOf(r)) >= req[r].before + 1

\* a 404 for a number that had been searched before
C6_Witness ==
  \E r \in Requests :
    /\ IsTrack(r) /\ IsDone(r) /\ req[r].mobileNumber = Str(Phone3)
    /\ req[r].track = "ok" /\ Answered(r, 404) /\ req[r].before = 1
    /\ ClickCount(mobile_searches, KeyOf(r)) = 2

\* C7: a 200 response carries whatsappLink exactly when the row's result is
\* "Selected", and then with the configured value.
C7_LinkIffSelected ==
  \A r \in Requests :
    IsTrack(r) /\ IsDone(r) /\ Answered(r, 200) =>
      LET body == req[r].responses[1].body
      IN /\ body.whatsappLink # <<>> <=> body.data.result = "Selected"
         /\ body.whatsappLink # <<>> => body.whatsappLink = WHATSAPP_LINK

\* C8: a secret that is missing or differs from ADMIN_SECRET is answered 401
\* with no storage statement, also when ADMIN_SECRET is not set.
C8_BadSecretIs401 ==
  \A r \in Requests :
    IsAdmin(r) /\ (req[r].secret = <<>> \/ req[r].secret # ADMIN_SECRET) =>
      IsDone(r) /\ Answered(r, 401) /\ req[r].stmts = <<>>

\* C9: the 200 response of the admin report holds every record of
\* mobile_searches exactly once, in descending order of last_updated, and
\* total is the number of records returned.
C9_ListComplete ==
  [][\A r \in Requests :
       req[r].pc = "list" /\ Len(req'[r].responses) = 1
                          /\ req'[r].responses[1].status = 200 =>
         LET body == req'[r].responses[1].body
             n == Len(body.data)
         IN /\ body.total = n
            /\ n = Cardinality(mobile_searches)
            /\ {body.data[i] : i \in 1..n} = mobile_searches
            /\ \A i \in 1..n : \A j \in 1..n :
                 i < j => body.data[i].last_updated >= body.data[j].last_updated
    ]_vars

\* a report of several records of different age
C9_Witness ==
  \E r \in Requests :
    /\ IsAdmin(r) /\ Answered(r, 200)
    /\ LET data == req[r].responses[1].body.data
       IN Len(data) >= 3 /\ data[1].last_updated > data[Len(data)].last_updated

\* C10: no request is answered twice.
C10_AtMostOneResponse == \A r \in Requests : Len(req[r].responses) <= 1

\* the timer fired on a request that had been answered, and a storage
\* failure was answered by a handler
C10_Witness ==
  /\ \E r \in Requests : req[r].timer = "fired" /\ Len(req[r].responses) = 1
  /\ \E r \in Requests : IsTrack(r) /\ req[r].lookup = "failed" /\ Answered(r, 500)

\* C11: a track or admin request that has not been answered when its 30 s
\* budget ends (a storage call that does not return) is answered 408
\* 'Request timeout'.
C11_OverdueIs408 ==
  \A r \in Requests :
    (IsTrack(r) \/ IsAdmin(r)) /\ req[r].overdue =>
      /\ Answered(r, 408)
      /\ req[r].responses[1].body = ErrorBody("Request timeout")

TrackingSettled ==
  \A r \in Requests :
    IsTrack(r) => req[r].track # "failed" /\ req[r].pc # "track"

\* C13 as stated: with no tracking write failing, the click_count of the
\* record for a value is the number of requests made with that value, the
\* requests answered 400 included.
C13_EveryRequestCounted ==
  TrackingSettled =>
    \A v \in CoreNumbers :
      ClickCount(mobile_searches, TrackParam(v)) =
        Cardinality({r \in Requests : IsTrack(r) /\ req[r].mobileNumber = v})

\* C13 amended: server.js issues a tracking write for every request, the
\* Railway build for every request whose mobileNumber is truthy; with no
\* tracking write failing, the click_count of the record for a key is the
\* number of requests that issued a tracking write for that key, the
\* requests answered 400 included.
C13_TrackedRequestsCounted ==
  /\ \A r \in Requests :
       IsTrack(r) =>
         (Issued(r, "track") <=>
            (variant = "track-search" \/ ToBoolean(req[r].mobileNumber)))
  /\ TrackingSettled =>
       \A v \in CoreNumbers :
         LET k == TrackParam(v)
         IN ClickCount(mobile_searches, k) =
              Cardinality({r \in Requests :
                             IsTrack(r) /\ Issued(r, "track") /\ KeyOf(r) = k})

\* two requests with the same invalid value, both answered 400, both counted
C13_Witness ==
  \E r1 \in Requests : \E r2 \in Requests :
    /\ r1 # r2 /\ IsTrack(r1) /\ IsTrack(r2)
    /\ req[r1].mobileNumber = req[r2].mobileNumber
    /\ Answered(r1, 400) /\ Answered(r2, 400)
    /\ TrackingSettled
    /\ ClickCount(mobile_searches, KeyOf(r1)) = 2

\* the requests made with value v
CallsWith(v) == {r \in Requests : IsTrack(r) /\ req[r].mobileNumber = v}

HasTestResult(v) == PassesValidation(v) /\ ~NoTestResult(v)

\* C14 as stated: when every call made with a valid number that has a test
\* result has been answered 200, all of them carry the same data and the
\* record's click_count is the number of calls.
C14_SameDataOneClickPerCall ==
  \A v \in CoreNumbers :
    HasTestResult(v) /\ (\A r \in CallsWith(v) : Answered(r, 200)) =>
      /\ \A r1 \in CallsWith(v) : \A r2 \in CallsWith(v) :
           req[r1].responses[1].body.data = req[r2].responses[1].body.data
      /\ ClickCount(mobile_searches, TrackParam(v)) = Cardinality(CallsWith(v))

\* C14 amended: every call answered 200 carries the same data, the row of
\* test_results, and when every call made with the number has been answered
\* 200 the record's click_count is the number of those calls whose tracking
\* write succeeded.
C14_SameDataOneClickPerTrackedCall ==
  \A v \in CoreNumbers :
    HasTestResult(v) =>
      /\ \A r \in CallsWith(v) :
           Answered(r, 200) =>
             <<req[r].responses[1].body.data>> = SelectTestResult(SqlParam(v))
      /\ (\A r \in CallsWith(v) : Answered(r, 200)) =>
           ClickCount(mobile_searches, TrackParam(v)) =
             Cardinality({r \in CallsWith(v) : req[r].track = "ok"})

\* two calls with the same number, both answered 200 with the same data,
\* both counted
C14_Witness ==
  \E r1 \in Requests : \E r2 \in Requests :
    /\ r1 # r2 /\ IsTrack(r1) /\ IsTrack(r2)
    /\ req[r1].mobileNumber = req[r2].mobileNumber
    /\ Answered(r1, 200) /\ Answered(r2, 200)
    /\ req[r1].responses[1].body.data = req[r2].responses[1].body.data
    /\ req[r1].track = "ok" /\ req[r2].track = "ok"
    /\ ClickCount(mobile_searches, KeyOf(r1)) = 2

\* C15: no failure ends the process: whatever fails, node keeps running.
C15_ProcessKeepsRunning == alive = TRUE

\* the attempts of initDatabase that have failed so far
FailedAttempts == InitialRetries - retries

\* C16: initDatabase returns in the end; it has returned exactly when an
\* attempt ran through its three statements or when 5 attempts have failed,
\* it waits only between two attempts, never makes a sixth attempt, stays
\* returned, and the process is running all the while.
C16_InitDatabaseTerminates ==
  /\ <>(initPc = "returned")
  /\ [](/\ alive
        /\ FailedAttempts \in 0..InitialRetries
        /\ initPc # "returned" => FailedAttempts < InitialRetries
        /\ initPc = "sleep" => FailedAttempts \in 1..(InitialRetries - 1))
  /\ [][/\ initPc = "returned" => initPc' = "returned" /\ retries' = retries
        /\ initPc # "returned" /\ initPc' = "returned" =>
             \/ initPc = "create_results" /\ retries' = retries
             \/ FailedAttempts' = InitialRetries /\ retries = 1
        /\ retries' \in {retries, retries - 1}]_vars

\* all 5 attempts failed, initDatabase has returned, and /health is answered
C16_Witness ==
  /\ initPc = "returned" /\ FailedAttempts = InitialRetries /\ alive
  /\ \E r \in Requests : req[r].kind = "health" /\ Answered(r, 200)

IsHealth(r) == req[r].route = "health"

\* C17 as stated: every GET /health is answered 200 with status "OK" and
\* issues no storage statement, whatever the storage did and whatever
\* requests came before.
C17_HealthAlwaysOk ==
  \A r \in Requests :
    IsHealth(r) =>
      /\ Answered(r, 200)
      /\ req[r].responses[1].body.status = "OK"
      /\ req[r].stmts = <<>>

\* C17 amended: a GET /health is answered at once and touches no storage; the
\* answer is 200 with status "OK" when the limiter lets the request through,
\* whatever the storage did and whatever requests came before, and the 429
\* of the limiter when the address has used up its window; the answer does
\* not change afterwards.
C17_HealthOkWithinLimit ==
  [][\A r \in Requests :
       /\ req[r].kind = "idle" /\ req'[r].route = "health" =>
            /\ req'[r].stmts = <<>>
            /\ mobile_searches' = mobile_searches
            /\ req'[r].responses =
                 IF hits < Max
                 THEN <<[status |-> 200,
                         body |-> [status |-> "OK", timestamp |-> now]]>>
                 ELSE <<[status |-> 429, body |-> TooManyRequests]>>
       /\ IsHealth(r) => req'[r] = req[r]]_vars

\* /health answered 200 after a request whose storage statements failed
C17_Witness ==
  /\ \E r1 \in Requests : \E r2 \in Requests :
       /\ r1 < r2 /\ IsTrack(r1) /\ req[r1].track = "failed"
       /\ req[r1].lookup = "failed"
       /\ IsHealth(r2) /\ Answered(r2, 200)

\* C18: the mobile_number of every record is a string of exactly 10 decimal
\* digits.
C18_KeysAreTenDigits ==
  \A row \in mobile_searches : MatchesTenDigits(row.mobile_number)

\* C19: a request issues its storage statements in the order track, lookup,
\* reconcile, one at a time: the one it awaits is the last one issued, the
\* lookup is issued only after the tracking write has succeeded or failed,
\* the reconciliation write only after a lookup that returned a row.
C19_StatementOrder ==
  \A r \in Requests :
    IsTrack(r) =>
      /\ req[r].stmts \in {<<>>, <<"track">>, <<"track", "lookup">>,
                           <<"track", "lookup", "reconcile">>}
      /\ InFlight(req[r]) => req[r].stmts[Len(req[r].stmts)] = req[r].pc
      /\ Issued(r, "lookup") => req[r].track \in {"ok", "failed"}
      /\ ~Issued(r, "lookup") => req[r].lookup = "none"
      /\ Issued(r, "reconcile") <=> req[r].lookup = "row"
      /\ ~Issued(r, "reconcile") => req[r].reconcile = "none"

\* a request that went through all three statements after a tracking write
\* that failed, and one that stopped after a lookup without a row
C19_Witness ==
  /\ \E r \in Requests :
       /\ IsTrack(r) /\ IsDone(r) /\ req[r].track = "failed"
       /\ req[r].stmts = <<"track", "lookup", "reconcile">>
  /\ \E r \in Requests :
       /\ IsTrack(r) /\ IsDone(r) /\ req[r].lookup = "empty"
       /\ req[r].stmts = <<"track", "lookup">>

\* C20: no step removes a record or lowers a click_count, and when a request
\* whose tracking write succeeded ends, whatever its response, the count of
\* its record is still above the count before the request.
C20_NothingRolledBack ==
  [][/\ \A row \in mobile_searches :
          \E kept \in mobile_searches' :
            /\ kept.mobile_number = row.mobile_number
            /\ kept.click_count >= row.click_count
     /\ \A r \in Requests :
          /\ IsTrack(r) /\ req[r].track = "ok"
          /\ req[r].pc # "done" /\ req'[r].pc = "done"
          => ClickCount(mobile_searches', KeyOf(r)) >= req[r].before + 1]_vars

\* a counted request answered 500 and a counted request whose reconciliation
\* write failed, the record of a number searched before still there
C20_Witness ==
  /\ \E r \in Requests :
       /\ IsTrack(r) /\ req[r].track = "ok" /\ Answered(r, 500)
       /\ ClickCount(mobile_searches, KeyOf(r)) >= req[r].before + 1
  /\ \E r \in Requests :
       /\ IsTrack(r) /\ req[r].track = "ok" /\ req[r].reconcile = "failed"
       /\ IsDone(r) /\ req[r].before >= 2
       /\ ClickCount(mobile_searches, KeyOf(r)) >= req[r].before + 1
  /\ Cardinality(mobile_searches) >= 2

\* the records of table that no other record is newer than
Newest(table) ==
  {row \in table : \A other \in table : other.last_updated <= row.last_updated}

\* C21: a tracking write that succeeds sets last_updated of its record to
\* the current time, which no record is later than; the table changes only
\* by a storage write; and a report lists every record that no other is
\* newer than before any record with another last_updated.  So a report
\* made after a successful track of a number, with no write in between, has
\* no record before that number's with a later last_updated.
C21_TrackedIsNewest ==
  /\ [][\A r \in Requests :
          req[r].pc = "track" /\ req'[r].track = "ok" =>
            /\ RowOf(mobile_searches', KeyOf(r)).last_updated = now
            /\ RowOf(mobile_searches', KeyOf(r)) \in Newest(mobile_searches')]_vars
  /\ [][mobile_searches' # mobile_searches =>
          \E r \in Requests :
            \/ req[r].pc = "track" /\ req'[r].track = "ok"
            \/ req[r].pc = "reconcile" /\ req'[r].reconcile = "ok"]_vars
  /\ [][\A r \in Requests :
          req[r].pc = "list" /\ Len(req'[r].responses) = 1
                             /\ req'[r].responses[1].status = 200 =>
            LET data == req'[r].responses[1].body.data
            IN \A i \in 1..Len(data) : \A j \in 1..Len(data) :
                 data[i] \in Newest(mobile_searches) /\ j < i =>
                   data[j].last_updated = data[i].last_updated]_vars

\* a report whose first record is the one a request has just tracked, ahead
\* of records that were written earlier
C21_Witness ==
  \E a \in Requests : \E r \in Requests :
    /\ IsAdmin(a) /\ Answered(a, 200)
    /\ IsTrack(r) /\ req[r].track = "ok" /\ req[r].before >= 1
    /\ LET data == req[a].responses[1].body.data
       IN /\ Len(data) >= 2
          /\ data[1].mobile_number = KeyOf(r)
          /\ data[1].click_count = req[r].before + 1
          /\ data[1].last_updated > data[2].last_updated

\* mobile_number and click_count of every record
Counts(table) ==
  {[mobile_number |-> row.mobile_number, click_count |-> row.click_count] :
     row \in table}

\* C22: the reconciliation write, succeeding or failing, creates no record
\* and changes no click_count; it leaves the records of other numbers as
\* they were and can change only name (and with it the last_updated the
\* database maintains) of the record of its number.
C22_ReconcileFrame ==
  [][\A r \in Requests :
       req[r].pc = "reconcile" /\ req'[r].reconcile # "none" =>
         LET k == SqlParam(req[r].mobileNumber)
         IN /\ Counts(mobile_searches') = Counts(mobile_searches)
            /\ Cardinality(mobile_searches') = Cardinality(mobile_searches)
            /\ {row \in mobile_searches' : row.mobile_number # k} =
                 {row \in mobile_searches : row.mobile_number # k}
            /\ \A row \in RowsOf(mobile_searches', k) :
                 \/ row \in mobile_searches
                 \/ /\ req'[r].reconcile = "ok"
                    /\ row.name = <<req[r].testResult[1].name>>]_vars

\* a request answered 200 after its tracking write failed and its
\* reconciliation write succeeded, and the number has no record
C22_Witness ==
  \E r \in Requests :
    /\ IsTrack(r) /\ req[r].track = "failed" /\ req[r].reconcile = "ok"
    /\ Answered(r, 200)
    /\ ~HasRow(mobile_searches, SqlParam(req[r].mobileNumber))

====
